---- MODULE Spec2Model ----
(***************************************************************************)
(* Model of the Azure metrics provider of metris                           *)
(* (components/metris/internal/provider/azure/azure.go): the cluster       *)
(* intake goroutine (clusterHandler), the worker pool started by Run, the  *)
(* two in-memory stores and the delaying work queue they share.            *)
(*                                                                         *)
(* Instances are Go pointers to Instance: the store and a worker may hold  *)
(* the same object, so the objects live in a heap of slots and the store   *)
(* and the workers hold slot numbers.                                      *)
(***************************************************************************)
EXTENDS Integers, Sequences, FiniteSets, TLC

VARIABLES
    env,              \* what the surroundings do in this run: the notifications the feed
                      \* sends, the errors and the data the Provider Client returns, and
                      \* the history that is recorded (it never changes)
    instanceStorage,  \* a.instanceStorage: TechnicalID -> slot of the *Instance, 0 = no entry
    heap,             \* the Instance objects, by slot
    vmCapsStorage,    \* a.vmCapsStorage: Region -> <<>> (no entry) or <<capabilities>>
    queue,            \* a.queue: the delaying work queue (queue, dirty, processing, waiting, shuttingDown)
    timers,           \* pending time.AfterFunc re-deliveries onto ClusterChannel
    cancelled,        \* parentctx.Done() is closed
    hpc,              \* clusterHandler's position
    hcluster,         \* clusterHandler: the notification being processed
    hinstance,        \* clusterHandler: the Instance under construction (not yet in the store)
    hcalls,           \* Provider Client calls made by clusterHandler for the current notification
    pc,               \* worker's position in the Run loop
    clusterid,        \* worker: the key returned by queue.Get
    instance,         \* worker: slot of the *Instance it holds, 0 = none
    eventData,        \* worker: eventData of this cycle (NilEvent = nil)
    err,              \* worker: err of this cycle ("nil" or an error class)
    calls,            \* Provider Client calls made by the worker in this cycle
    sent,             \* events the worker put on EventsChannel in this cycle
    start,            \* the Instance as the worker read it at cycle start
    prev,             \* what lastCycle held for the key when the worker's cycle started
    lastNotification, \* per TechnicalID: the last notification clusterHandler received
    lastGood,         \* per TechnicalID: EventData of the most recent successful fetch
    lastCycle,        \* per TechnicalID: whether the last cycle written back was rate
                      \* limited or skipped, and whether clusterHandler has changed the
                      \* entry since
    received,         \* number of notifications clusterHandler has received
    cycles            \* number of fetch-or-skip cycles the workers have run

vars == <<env, instanceStorage, heap, vmCapsStorage, queue, timers, cancelled,
          hpc, hcluster, hinstance, hcalls,
          pc, clusterid, instance, eventData, err, calls, sent, start, prev,
          lastNotification, lastGood, lastCycle, received, cycles>>

-----------------------------------------------------------------------------
(* Bounds and domains *)

\* a.config.Workers goroutines
Workers == {"w1", "w2"}

TechnicalIDs == {"c1", "c2"}

\* the feed (and the re-delivery timers) deliver at most this many notifications
MaxNotifications == 2

\* the workers run at most this many fetch-or-skip cycles
MaxCycles == 3

\* maximum retry attempts before an instance is removed
maxRetryAttempts == 2

SubAccountOf(id) == IF id = "c1" THEN "sa1" ELSE "sa2"

RegionOf(id) == IF id = "c1" THEN "eu1" ELSE "eu2"

Regions == {RegionOf(id) : id \in TechnicalIDs}

\* the notifications of the discovery feed (gardener.Cluster)
\* (a Deleted notification is handled without a look at its other fields)
Clusters ==
    {c \in {[TechnicalID |-> id, SubAccountID |-> SubAccountOf(id), Region |-> RegionOf(id),
             Trial |-> t, Deleted |-> d] :
                id \in TechnicalIDs, t \in BOOLEAN, d \in BOOLEAN} :
        c.Deleted => ~c.Trial}

NoCluster ==
    [TechnicalID |-> "", SubAccountID |-> "", Region |-> "", Trial |-> FALSE, Deleted |-> FALSE]

\* a nil *EventData
NilEvent == [ResourceGroups |-> <<>>, Compute |-> 0, Networking |-> 0, EventHub |-> 0]

\* &Instance{cluster: cluster}: every other field has its zero value
NewInstance(cluster) ==
    [cluster |-> cluster, eventHubResourceGroupName |-> "", lastEvent |-> NilEvent,
     retryAttempts |-> 0, retryBackoff |-> FALSE]

\* an unused heap slot
Blank == NewInstance(NoCluster)

Slots == 1 .. (Cardinality(TechnicalIDs) + Cardinality(Workers))

-----------------------------------------------------------------------------
(* storage.Storage: a concurrent key -> value map holding the *Instance    *)
(* pointers                                                                *)

StorageGet(storage, key) == storage[key]

StoragePut(storage, key, slot) == [storage EXCEPT ![key] = slot]

StorageDelete(storage, key) == [storage EXCEPT ![key] = 0]

\* the slots some pointer still reaches
Live(storage, held) ==
    ({storage[id] : id \in TechnicalIDs} \cup {held[w] : w \in Workers}) \ {0}

\* garbage collection: an object nobody points to is gone
Collect(h, storage, held) ==
    [s \in Slots |-> IF s \in Live(storage, held) THEN h[s] ELSE Blank]

\* allocation of a new object
FreeSlot(storage, held) ==
    CHOOSE s \in Slots : s \notin Live(storage, held) /\
        \A t \in Slots : t \notin Live(storage, held) => s <= t

-----------------------------------------------------------------------------
(* workqueue.DelayingInterface (k8s.io/client-go/util/workqueue)           *)

NewNamedDelayingQueue ==
    [queue |-> <<>>, dirty |-> {}, processing |-> {}, waiting |-> {}, shuttingDown |-> FALSE]

InQueue(q, item) == \E i \in 1 .. Len(q.queue) : q.queue[i] = item

\* Add marks item as needing processing
QueueAdd(q, item) ==
    IF q.shuttingDown \/ item \in q.dirty THEN q
    ELSE IF item \in q.processing THEN [q EXCEPT !.dirty = @ \cup {item}]
    ELSE [q EXCEPT !.dirty = @ \cup {item}, !.queue = Append(@, item)]

\* Get can return: an item is queued, or the queue is shut down and drained
QueueGetReady(q) == Len(q.queue) > 0 \/ q.shuttingDown

QueueGetQuit(q) == Len(q.queue) = 0

QueueGetItem(q) == Head(q.queue)

QueueGet(q) ==
    [q EXCEPT !.queue = Tail(@), !.processing = @ \cup {Head(q.queue)},
              !.dirty = @ \ {Head(q.queue)}]

\* Done marks item as done processing, and re-queues it if it was added meanwhile
QueueDone(q, item) ==
    IF item \in q.dirty
    THEN [q EXCEPT !.processing = @ \ {item}, !.queue = Append(@, item)]
    ELSE [q EXCEPT !.processing = @ \ {item}]

QueueShuttingDown(q) == q.shuttingDown

\* AddAfter with a positive delay: the item waits for its timer
QueueAddAfter(q, item) ==
    IF q.shuttingDown THEN q ELSE [q EXCEPT !.waiting = @ \cup {item}]

QueueShutDown(q) == [q EXCEPT !.shuttingDown = TRUE]

-----------------------------------------------------------------------------
(* The Provider Client: what its calls can return                          *)

\* "rgNotFound": autorest.DetailedError, 404, message names ResourceGroupNotFound
\* "notFound":   autorest.DetailedError, 404, any other message
\* "tooMany":    autorest.DetailedError, 429
\* "other":      any other error (another status, a timeout, not a DetailedError)
ErrorClasses == {"rgNotFound", "notFound", "tooMany", "other"}

\* the error the worker makes up when it skips the fetch
selfThrottle == "selfThrottle"

Failures(d) == {[err |-> e, data |-> d] : e \in ErrorClasses}

ComputeData == {1, 2}

\* a compute figure that json.Marshal rejects (an unsupported value)
Unencodable == 3

ComputeResults ==
    {[err |-> "nil", data |-> d] : d \in ComputeData \cup {Unencodable}} \cup Failures(0)

NetworkResults == {[err |-> "nil", data |-> 1]} \cup Failures(0)

EventHubResults == {[err |-> "nil", data |-> 1]} \cup Failures(0)

\* the results the Provider Client returns in this run
Returned(results) ==
    {r \in results : IF r.err = "nil" THEN r.data \in env.Data ELSE r.err \in env.Errors}

\* the resource group tagged with the subaccount id
EventHubResourceGroupOf(sub) == IF sub = "sa1" THEN "rg1" ELSE "rg2"

\* GetVMResourceSkus: an error, an empty list, or the skus of the region
SkuResults ==
    {[err |-> "other", skus |-> {}], [err |-> "nil", skus |-> {}],
     [err |-> "nil", skus |-> {"Standard_D2"}]}

-----------------------------------------------------------------------------
(* The worker's cycle, as pure functions of the Instance it holds          *)

\* a getMetrics that hands back what it has assembled when the network call
\* fails
getMetricsPartial(inst, vmcaps, c, n, e) ==
    IF c.err # "nil"
    THEN [eventData |-> NilEvent, err |-> c.err, calls |-> <<"compute">>]
    ELSE IF n.err # "nil"
    THEN [eventData |->
              [ResourceGroups |-> <<inst.cluster.TechnicalID>>,
               Compute |-> c.data, Networking |-> 0, EventHub |-> 0],
          err |-> n.err, calls |-> <<"compute", "network">>]
    ELSE IF inst.eventHubResourceGroupName # ""
    THEN IF e.err # "nil"
         THEN [eventData |-> NilEvent, err |-> e.err,
               calls |-> <<"compute", "network", "eventhub">>]
         ELSE [eventData |->
                   [ResourceGroups |->
                        <<inst.cluster.TechnicalID, inst.eventHubResourceGroupName>>,
                    Compute |-> c.data, Networking |-> n.data, EventHub |-> e.data],
               err |-> "nil", calls |-> <<"compute", "network", "eventhub">>]
    ELSE [eventData |->
              [ResourceGroups |-> <<inst.cluster.TechnicalID>>,
               Compute |-> c.data, Networking |-> n.data, EventHub |-> 0],
          err |-> "nil", calls |-> <<"compute", "network">>]

\* getMetrics: compute, network and (when a resource group is known) event hub,
\* fail-fast
getMetrics(inst, vmcaps, c, n, e) ==
    IF c.err # "nil"
    THEN [eventData |-> NilEvent, err |-> c.err, calls |-> <<"compute">>]
    ELSE IF n.err # "nil"
    THEN [eventData |-> NilEvent, err |-> n.err, calls |-> <<"compute", "network">>]
    ELSE IF inst.eventHubResourceGroupName # ""
    THEN IF e.err # "nil"
         THEN [eventData |-> NilEvent, err |-> e.err,
               calls |-> <<"compute", "network", "eventhub">>]
         ELSE [eventData |->
                   [ResourceGroups |->
                        <<inst.cluster.TechnicalID, inst.eventHubResourceGroupName>>,
                    Compute |-> c.data, Networking |-> n.data, EventHub |-> e.data],
               err |-> "nil", calls |-> <<"compute", "network", "eventhub">>]
    ELSE [eventData |->
              [ResourceGroups |-> <<inst.cluster.TechnicalID>>,
               Compute |-> c.data, Networking |-> n.data, EventHub |-> 0],
          err |-> "nil", calls |-> <<"compute", "network">>]

\* a skip that forgets to clear retryBackoff
FetchOrSkipKeepsBackoff(inst, vmcaps, c, n, e) ==
    IF inst.retryBackoff
    THEN [instance |-> inst, eventData |-> NilEvent, err |-> selfThrottle, calls |-> <<>>]
    ELSE LET r == getMetrics(inst, vmcaps, c, n, e)
         IN  [instance |-> inst, eventData |-> r.eventData, err |-> r.err,
              calls |-> r.calls]

\* the choice between the self-throttle skip and the fetch
FetchOrSkip(inst, vmcaps, c, n, e) ==
    IF inst.retryBackoff
    THEN [instance |-> [inst EXCEPT !.retryBackoff = FALSE],
          eventData |-> NilEvent, err |-> selfThrottle, calls |-> <<>>]
    ELSE LET r == getMetrics(inst, vmcaps, c, n, e)
         IN  [instance |-> inst, eventData |-> r.eventData, err |-> r.err,
              calls |-> r.calls]

\* a switch that starts the count again on an error of another kind
ClassifyErrorResets(inst, e) ==
    IF e = "rgNotFound"
    THEN [instance |-> [inst EXCEPT !.retryAttempts = @ + 1],
          op |-> IF inst.retryAttempts + 1 < maxRetryAttempts THEN "put" ELSE "delete"]
    ELSE IF e = "tooMany"
    THEN [instance |-> [inst EXCEPT !.retryBackoff = TRUE], op |-> "none"]
    ELSE [instance |-> [inst EXCEPT !.retryAttempts = 0], op |-> "none"]

\* a switch that takes every 404 for a missing resource group
ClassifyErrorAny404(inst, e) ==
    IF e \in {"rgNotFound", "notFound"}
    THEN [instance |-> [inst EXCEPT !.retryAttempts = @ + 1],
          op |-> IF inst.retryAttempts + 1 < maxRetryAttempts THEN "put" ELSE "delete"]
    ELSE IF e = "tooMany"
    THEN [instance |-> [inst EXCEPT !.retryBackoff = TRUE], op |-> "none"]
    ELSE [instance |-> inst, op |-> "none"]

\* a switch that counts a missing resource group twice
ClassifyErrorCountsTwice(inst, e) ==
    IF e = "rgNotFound"
    THEN [instance |-> [inst EXCEPT !.retryAttempts = @ + 2],
          op |-> IF inst.retryAttempts + 2 < maxRetryAttempts THEN "put" ELSE "delete"]
    ELSE IF e = "tooMany"
    THEN [instance |-> [inst EXCEPT !.retryBackoff = TRUE], op |-> "none"]
    ELSE [instance |-> inst, op |-> "none"]

\* a switch that keeps the Instance on a missing resource group without
\* counting the attempt
ClassifyErrorNoCount(inst, e) ==
    IF e = "rgNotFound"
    THEN [instance |-> inst, op |-> "put"]
    ELSE IF e = "tooMany"
    THEN [instance |-> [inst EXCEPT !.retryBackoff = TRUE], op |-> "none"]
    ELSE [instance |-> inst, op |-> "none"]

\* the switch on the error's status code: the Instance after it, and what it
\* does to the store ("put", "delete" or "none")
ClassifyError(inst, e) ==
    IF e = "rgNotFound"
    THEN [instance |-> [inst EXCEPT !.retryAttempts = @ + 1],
          op |-> IF inst.retryAttempts + 1 < maxRetryAttempts THEN "put" ELSE "delete"]
    ELSE IF e = "tooMany"
    THEN [instance |-> [inst EXCEPT !.retryBackoff = TRUE], op |-> "none"]
    ELSE [instance |-> inst, op |-> "none"]

\* on an error, the cached event stands in for the missing one
Fallback(inst, data, e) ==
    IF e # "nil" /\ inst.lastEvent # NilEvent THEN inst.lastEvent ELSE data

\* json.Marshal of the EventData
Marshal(data) ==
    <<"ResourceGroups", data.ResourceGroups, "Compute", data.Compute,
      "Networking", data.Networking, "EventHub", data.EventHub>>

\* json.Marshal returns an error
MarshalFails(data) == data.Compute = Unencodable

\* a sendMetrics that sends the event and does not keep a copy of it
sendMetricsKeepsNothing(inst, data) ==
    IF MarshalFails(data)
    THEN [instance |-> inst, sent |-> <<>>]
    ELSE [instance |-> inst,
          sent |-> <<[Datatenant |-> inst.cluster.SubAccountID, Data |-> Marshal(data)]>>]

\* sendMetrics: the Instance after it and the events put on EventsChannel;
\* when json.Marshal fails it returns before it has touched either
sendMetrics(inst, data) ==
    IF MarshalFails(data)
    THEN [instance |-> inst, sent |-> <<>>]
    ELSE [instance |-> [inst EXCEPT !.lastEvent = data],
          sent |-> <<[Datatenant |-> inst.cluster.SubAccountID, Data |-> Marshal(data)]>>]

\* a send that does not look at eventData
SendAlways(inst, data) == sendMetrics(inst, data)

\* lines 169-173: nothing is sent for a nil eventData
SendIfAny(inst, data) ==
    IF data # NilEvent THEN sendMetrics(inst, data) ELSE [instance |-> inst, sent |-> <<>>]

-----------------------------------------------------------------------------
(* Initial state: NewAzureProvider, and Run before any goroutine has moved *)

NoCycle == [err |-> "none", changed |-> FALSE, attempts |-> 0]

NoNotification == [cluster |-> NoCluster, outcome |-> "none"]

\* a run with one cluster that is not a trial and every error class, with the
\* workers' calls and the outcome of the last cycle recorded
EnvOne ==
    [Feed |-> {c \in Clusters : c.TechnicalID = "c1" /\ ~c.Trial},
     Errors |-> ErrorClasses, Data |-> ComputeData,
     Track |-> {"calls", "cycle"}, Counted |-> TRUE]

\* the same run, with the last notification and the last good fetch recorded
EnvHistory ==
    [Feed |-> {c \in Clusters : c.TechnicalID = "c1" /\ ~c.Trial},
     Errors |-> ErrorClasses, Data |-> ComputeData,
     Track |-> {"notification", "good", "attempts"}, Counted |-> TRUE]

\* a run with two clusters, c2 a trial, in which every fetch succeeds, with
\* the handler's calls and the last notification recorded
EnvTwo ==
    [Feed |-> {c \in Clusters : c.Trial = (c.TechnicalID = "c2" /\ ~c.Deleted)},
     Errors |-> {}, Data |-> {1},
     Track |-> {"hcalls", "notification"}, Counted |-> TRUE]

\* a run of one cluster, trial or not, whose compute figures may be
\* unencodable and whose fetches may fail, with the workers' calls recorded
EnvTrial ==
    [Feed |-> {c \in Clusters : c.TechnicalID = "c1"},
     Errors |-> {"other"}, Data |-> {1, Unencodable},
     Track |-> {"calls"}, Counted |-> TRUE]

\* a run of one cluster whose cycles are not counted, so that they can go on
\* for ever: every fetch succeeds or fails with an error that leaves the retry
\* counter alone, and no history is recorded
EnvLive ==
    [Feed |-> {c \in Clusters : c.TechnicalID = "c1" /\ ~c.Trial},
     Errors |-> {"tooMany", "other"}, Data |-> {1},
     Track |-> {}, Counted |-> FALSE]

\* a piece of history is recorded only in the runs that ask for it
Track(what, new, old) == IF what \in env.Track THEN new ELSE old

InitWith(e) ==
    /\ env = e
    /\ instanceStorage = [id \in TechnicalIDs |-> 0]
    /\ heap = [s \in Slots |-> Blank]
    /\ vmCapsStorage = [r \in Regions |-> <<>>]
    /\ queue = NewNamedDelayingQueue
    /\ timers = {}
    /\ cancelled = FALSE
    /\ hpc = "receive"
    /\ hcluster = NoCluster
    /\ hinstance = Blank
    /\ hcalls = <<>>
    /\ pc = [w \in Workers |-> "get"]
    /\ clusterid = [w \in Workers |-> ""]
    /\ instance = [w \in Workers |-> 0]
    /\ eventData = [w \in Workers |-> NilEvent]
    /\ err = [w \in Workers |-> "nil"]
    /\ calls = [w \in Workers |-> <<>>]
    /\ sent = [w \in Workers |-> <<>>]
    /\ start = [w \in Workers |-> Blank]
    /\ prev = [w \in Workers |-> NoCycle]
    /\ lastNotification = [id \in TechnicalIDs |-> NoNotification]
    /\ lastGood = [id \in TechnicalIDs |-> NilEvent]
    /\ lastCycle = [id \in TechnicalIDs |-> NoCycle]
    /\ received = 0
    /\ cycles = 0

Init == InitWith(EnvOne)

InitHistory == InitWith(EnvHistory)

InitTwo == InitWith(EnvTwo)

InitLive == InitWith(EnvLive)

InitTrial == InitWith(EnvTrial)

handlerVars ==
    <<env, timers, cancelled, hpc, hcluster, hinstance, hcalls, lastNotification, received>>

workerVars == <<pc, clusterid, instance, eventData, err, calls, sent, start, prev, cycles>>

-----------------------------------------------------------------------------
(* The worker goroutines of Run                                            *)

\* a Get that acknowledges the item at once
WorkerGetReleased(w) ==
    /\ pc[w] = "get"
    /\ QueueGetReady(queue)
    /\ ~QueueGetQuit(queue)
    /\ clusterid' = [clusterid EXCEPT ![w] = QueueGetItem(queue)]
    /\ queue' = QueueDone(QueueGet(queue), QueueGetItem(queue))
    /\ pc' = [pc EXCEPT ![w] = "lookup"]
    /\ UNCHANGED <<cycles, instanceStorage, heap, vmCapsStorage, handlerVars, instance, eventData,
                   err, calls, sent, start, prev, lastGood, lastCycle>>

\* clusterid, quit := a.queue.Get(), an item is there
WorkerGet(w) ==
    /\ pc[w] = "get"
    /\ QueueGetReady(queue)
    /\ ~QueueGetQuit(queue)
    /\ clusterid' = [clusterid EXCEPT ![w] = QueueGetItem(queue)]
    /\ queue' = QueueGet(queue)
    /\ pc' = [pc EXCEPT ![w] = "lookup"]
    /\ UNCHANGED <<cycles, instanceStorage, heap, vmCapsStorage, handlerVars, instance, eventData,
                   err, calls, sent, start, prev, lastGood, lastCycle>>

\* clusterid, quit := a.queue.Get(), quit is set: the worker returns
WorkerQuit(w) ==
    /\ pc[w] = "get"
    /\ QueueGetReady(queue)
    /\ QueueGetQuit(queue)
    /\ pc' = [pc EXCEPT ![w] = "stopped"]
    /\ UNCHANGED <<cycles, instanceStorage, heap, vmCapsStorage, queue, handlerVars, clusterid,
                   instance, eventData, err, calls, sent, start, prev, lastGood, lastCycle>>

\* obj, ok := a.instanceStorage.Get(clusterid) finds the Instance. The store
\* only ever holds Instance pointers, so the type assertion cannot fail.
WorkerLookup(w) ==
    /\ pc[w] = "lookup"
    /\ StorageGet(instanceStorage, clusterid[w]) # 0
    /\ pc' = [pc EXCEPT ![w] = "cycle"]
    /\ instance' = [instance EXCEPT ![w] = StorageGet(instanceStorage, clusterid[w])]
    /\ start' = [start EXCEPT ![w] = heap[instance'[w]]]
    /\ prev' = [prev EXCEPT ![w] = lastCycle[clusterid[w]]]
    /\ UNCHANGED <<cycles, instanceStorage, heap, vmCapsStorage, queue, handlerVars,
                   clusterid, eventData, err, calls, sent, lastGood, lastCycle>>

\* a worker that re-admits the TechnicalID of a missing Instance
WorkerMissingRequeues(w) ==
    /\ pc[w] = "lookup"
    /\ StorageGet(instanceStorage, clusterid[w]) = 0
    /\ queue' = QueueAddAfter(QueueDone(queue, clusterid[w]), clusterid[w])
    /\ pc' = [pc EXCEPT ![w] = "get"]
    /\ clusterid' = [clusterid EXCEPT ![w] = ""]
    /\ UNCHANGED <<cycles, instanceStorage, heap, vmCapsStorage, handlerVars, instance,
                   eventData, err, calls, sent, start, prev, lastGood, lastCycle>>

\* the cluster is not in the store: a.queue.Done(clusterid); continue
WorkerMissing(w) ==
    /\ pc[w] = "lookup"
    /\ StorageGet(instanceStorage, clusterid[w]) = 0
    /\ queue' = QueueDone(queue, clusterid[w])
    /\ pc' = [pc EXCEPT ![w] = "get"]
    /\ clusterid' = [clusterid EXCEPT ![w] = ""]
    /\ UNCHANGED <<cycles, instanceStorage, heap, vmCapsStorage, handlerVars, instance,
                   eventData, err, calls, sent, start, prev, lastGood, lastCycle>>

\* results that are never looked at are not enumerated twice
Canonical(inst, c, n, e) ==
    LET unused == [err |-> "nil", data |-> 1]
    IN  /\ (inst.retryBackoff \/ c.err # "nil") => n = unused
        /\ (inst.retryBackoff \/ c.err # "nil" \/ n.err # "nil"
                \/ inst.eventHubResourceGroupName = "") => e = unused
        /\ inst.retryBackoff => c = unused

\* from the vm capabilities lookup to sendMetrics: the fetch or the skip, the
\* switch on the error, the fallback to the cached event and the send
WorkerCycle(w) ==
    /\ pc[w] = "cycle"
    /\ env.Counted => cycles < MaxCycles
    /\ cycles' = IF env.Counted THEN cycles + 1 ELSE cycles
    /\ \E c \in Returned(ComputeResults), n \in Returned(NetworkResults),
          e \in Returned(EventHubResults) :
         LET inst == heap[instance[w]]
             vmcaps == vmCapsStorage[inst.cluster.Region]
             f == FetchOrSkip(inst, vmcaps, c, n, e)
             cl == IF f.err # "nil" THEN ClassifyError(f.instance, f.err)
                   ELSE [instance |-> f.instance, op |-> "none"]
             data == Fallback(cl.instance, f.eventData, f.err)
             s == SendIfAny(cl.instance, data)
             id == inst.cluster.TechnicalID
             storage == IF cl.op = "put" THEN StoragePut(instanceStorage, id, instance[w])
                        ELSE IF cl.op = "delete" THEN StorageDelete(instanceStorage, id)
                        ELSE instanceStorage
         IN  /\ Canonical(inst, c, n, e)
             /\ instanceStorage' = storage
             /\ heap' = Collect([heap EXCEPT ![instance[w]] = s.instance], storage, instance)
             /\ eventData' = [eventData EXCEPT ![w] = data]
             /\ err' = [err EXCEPT ![w] = f.err]
             /\ calls' = Track("calls", [calls EXCEPT ![w] = f.calls], calls)
             /\ sent' = [sent EXCEPT ![w] = s.sent]
             /\ lastGood' = IF f.err = "nil"
                            THEN Track("good", [lastGood EXCEPT ![id] = f.eventData], lastGood)
                            ELSE lastGood
    /\ pc' = [pc EXCEPT ![w] = "save"]
    /\ UNCHANGED <<vmCapsStorage, queue, handlerVars, clusterid, instance, start, prev,
                   lastCycle>>

\* what is recorded of a cycle when it is written back: whether it was rate
\* limited or skipped, or (in the runs that follow the retry counter) the
\* retryAttempts it wrote
CycleRecord(w) ==
    IF "attempts" \in env.Track
    THEN [err |-> "any", changed |-> FALSE, attempts |-> heap[instance[w]].retryAttempts]
    ELSE [err |-> IF err[w] \in {"tooMany", selfThrottle} THEN err[w] ELSE "none",
          changed |-> FALSE, attempts |-> 0]

\* an end of cycle that puts the item among the delayed ones without asking
\* whether the queue is shutting down
WorkerSaveAlwaysRequeues(w) ==
    /\ pc[w] = "save"
    /\ LET id == heap[instance[w]].cluster.TechnicalID
           done == QueueDone(queue, clusterid[w])
       IN  /\ instanceStorage' = StoragePut(instanceStorage, id, instance[w])
           /\ lastCycle' = IF env.Track \cap {"cycle", "attempts"} # {}
                           THEN [lastCycle EXCEPT ![id] = CycleRecord(w)]
                           ELSE lastCycle
           /\ queue' = [done EXCEPT !.waiting = @ \cup {clusterid[w]}]
    /\ pc' = [pc EXCEPT ![w] = "get"]
    /\ clusterid' = [clusterid EXCEPT ![w] = ""]
    /\ instance' = [instance EXCEPT ![w] = 0]
    /\ heap' = Collect(heap, instanceStorage', instance')
    /\ eventData' = [eventData EXCEPT ![w] = NilEvent]
    /\ err' = [err EXCEPT ![w] = "nil"]
    /\ calls' = [calls EXCEPT ![w] = <<>>]
    /\ sent' = [sent EXCEPT ![w] = <<>>]
    /\ start' = [start EXCEPT ![w] = Blank]
    /\ prev' = [prev EXCEPT ![w] = NoCycle]
    /\ UNCHANGED <<cycles, vmCapsStorage, handlerVars, lastGood>>

\* an end of cycle that acknowledges the item and never requeues it
WorkerSaveNoRequeue(w) ==
    /\ pc[w] = "save"
    /\ LET id == heap[instance[w]].cluster.TechnicalID
       IN  /\ instanceStorage' = StoragePut(instanceStorage, id, instance[w])
           /\ queue' = QueueDone(queue, clusterid[w])
    /\ pc' = [pc EXCEPT ![w] = "get"]
    /\ clusterid' = [clusterid EXCEPT ![w] = ""]
    /\ instance' = [instance EXCEPT ![w] = 0]
    /\ heap' = Collect(heap, instanceStorage', instance')
    /\ eventData' = [eventData EXCEPT ![w] = NilEvent]
    /\ err' = [err EXCEPT ![w] = "nil"]
    /\ calls' = [calls EXCEPT ![w] = <<>>]
    /\ sent' = [sent EXCEPT ![w] = <<>>]
    /\ start' = [start EXCEPT ![w] = Blank]
    /\ prev' = [prev EXCEPT ![w] = NoCycle]
    /\ UNCHANGED <<cycles, vmCapsStorage, handlerVars, lastGood, lastCycle>>

\* the end of the cycle: save changes to storage, a.queue.Done(clusterid), and
\* requeue the item after the poll interval unless the queue is shutting down;
\* the loop then starts over and the locals of this cycle are gone
WorkerSave(w) ==
    /\ pc[w] = "save"
    /\ LET id == heap[instance[w]].cluster.TechnicalID
           done == QueueDone(queue, clusterid[w])
       IN  /\ instanceStorage' = StoragePut(instanceStorage, id, instance[w])
           /\ lastCycle' = IF env.Track \cap {"cycle", "attempts"} # {}
                           THEN [lastCycle EXCEPT ![id] = CycleRecord(w)]
                           ELSE lastCycle
           /\ queue' = IF ~QueueShuttingDown(done) THEN QueueAddAfter(done, clusterid[w])
                       ELSE done
    /\ pc' = [pc EXCEPT ![w] = "get"]
    /\ clusterid' = [clusterid EXCEPT ![w] = ""]
    /\ instance' = [instance EXCEPT ![w] = 0]
    /\ heap' = Collect(heap, instanceStorage', instance')
    /\ eventData' = [eventData EXCEPT ![w] = NilEvent]
    /\ err' = [err EXCEPT ![w] = "nil"]
    /\ calls' = [calls EXCEPT ![w] = <<>>]
    /\ sent' = [sent EXCEPT ![w] = <<>>]
    /\ start' = [start EXCEPT ![w] = Blank]
    /\ prev' = [prev EXCEPT ![w] = NoCycle]
    /\ UNCHANGED <<cycles, vmCapsStorage, handlerVars, lastGood>>

\* the delaying queue's timer for a waiting item fires: the item is added
QueueTimer(id) ==
    /\ id \in queue.waiting
    /\ ~queue.shuttingDown
    /\ queue' = QueueAdd([queue EXCEPT !.waiting = @ \ {id}], id)
    /\ UNCHANGED <<instanceStorage, heap, vmCapsStorage, handlerVars, workerVars, lastGood,
                   lastCycle>>

-----------------------------------------------------------------------------
(* clusterHandler, as pure functions                                       *)

\* a recovery that takes over the whole entry and only renews its cluster
RecoverEverything(cluster, storage, h) ==
    LET slot == StorageGet(storage, cluster.TechnicalID)
    IN  IF slot # 0
        THEN [h[slot] EXCEPT !.cluster = cluster]
        ELSE NewInstance(cluster)

\* instance := &Instance{cluster: cluster}, with lastEvent and
\* eventHubResourceGroupName recovered from the entry in the store, if any
Recover(cluster, storage, h) ==
    LET slot == StorageGet(storage, cluster.TechnicalID)
    IN  IF slot # 0
        THEN [NewInstance(cluster) EXCEPT
                 !.lastEvent = h[slot].lastEvent,
                 !.eventHubResourceGroupName = h[slot].eventHubResourceGroupName]
        ELSE NewInstance(cluster)

\* a lookup whose failure is tolerated for every cluster
ResolveResourceGroupNoRetry(inst, found) ==
    IF inst.eventHubResourceGroupName # ""
    THEN [instance |-> inst, calls |-> <<>>, retry |-> FALSE]
    ELSE IF found
    THEN [instance |-> [inst EXCEPT !.eventHubResourceGroupName =
                                        EventHubResourceGroupOf(inst.cluster.SubAccountID)],
          calls |-> <<"GetResourceGroup">>, retry |-> FALSE]
    ELSE [instance |-> inst, calls |-> <<"GetResourceGroup">>, retry |-> FALSE]

\* the event hub resource group lookup, made only when the name is unknown;
\* found says what GetResourceGroup answers
ResolveResourceGroup(inst, found) ==
    IF inst.eventHubResourceGroupName # ""
    THEN [instance |-> inst, calls |-> <<>>, retry |-> FALSE]
    ELSE IF found
    THEN [instance |-> [inst EXCEPT !.eventHubResourceGroupName =
                                        EventHubResourceGroupOf(inst.cluster.SubAccountID)],
          calls |-> <<"GetResourceGroup">>, retry |-> FALSE]
    ELSE [instance |-> inst, calls |-> <<"GetResourceGroup">>,
          retry |-> ~inst.cluster.Trial]

\* an initialisation that caches whatever the call gave, an empty set included
InitVMCapsCachesEmpty(caps, region, r) ==
    IF caps[region] # <<>>
    THEN [storage |-> caps, calls |-> <<>>]
    ELSE LET vmcaps == IF r.err = "nil" THEN r.skus ELSE {}
         IN  [storage |-> [caps EXCEPT ![region] = <<vmcaps>>],
              calls |-> <<"GetVMResourceSkus">>]

\* the vm capabilities cache of a region after the handler has seen a cluster
\* of it; r is what GetVMResourceSkus answers if it is called
InitVMCaps(caps, region, r) ==
    IF caps[region] # <<>>
    THEN [storage |-> caps, calls |-> <<>>]
    ELSE LET vmcaps == IF r.err = "nil" THEN r.skus ELSE {}
         IN  [storage |-> IF vmcaps # {} THEN [caps EXCEPT ![region] = <<vmcaps>>]
                          ELSE caps,
              calls |-> <<"GetVMResourceSkus">>]

-----------------------------------------------------------------------------
(* clusterHandler, the intake goroutine                                    *)

\* cluster := <-a.config.ClusterChannel: sent by the feed, or by the timer of
\* an earlier failed lookup
Received(cluster, fromTimer) ==
    /\ hpc = "receive"
    /\ received < MaxNotifications
    /\ received' = received + 1
    /\ IF fromTimer THEN cluster \in timers ELSE cluster \in env.Feed
    /\ timers' = IF fromTimer THEN timers \ {cluster} ELSE timers

Touched(id) ==
    [lastCycle EXCEPT ![id].changed = lastCycle[id].err # "none"]

Notified(id, cluster, outcome) ==
    Track("notification",
          [lastNotification EXCEPT ![id] = [cluster |-> cluster, outcome |-> outcome]],
          lastNotification)

\* a deletion that also withdraws the TechnicalID from the delayed items
HandlerDeleteUnqueues(cluster, fromTimer) ==
    /\ Received(cluster, fromTimer)
    /\ cluster.Deleted
    /\ instanceStorage' = StorageDelete(instanceStorage, cluster.TechnicalID)
    /\ heap' = Collect(heap, instanceStorage', instance)
    /\ queue' = [queue EXCEPT !.waiting = @ \ {cluster.TechnicalID}]
    /\ hcalls' = <<>>
    /\ lastNotification' = Notified(cluster.TechnicalID, cluster, "deleted")
    /\ lastCycle' = Touched(cluster.TechnicalID)
    /\ UNCHANGED <<env, vmCapsStorage, cancelled, hpc, hcluster, hinstance, workerVars,
                   lastGood>>

\* the cluster is flagged as deleted: remove it from storage, continue
HandlerDelete(cluster, fromTimer) ==
    /\ Received(cluster, fromTimer)
    /\ cluster.Deleted
    /\ instanceStorage' = StorageDelete(instanceStorage, cluster.TechnicalID)
    /\ heap' = Collect(heap, instanceStorage', instance)
    /\ hcalls' = <<>>
    /\ lastNotification' = Notified(cluster.TechnicalID, cluster, "deleted")
    /\ lastCycle' = Touched(cluster.TechnicalID)
    /\ UNCHANGED <<env, vmCapsStorage, queue, cancelled, hpc, hcluster, hinstance, workerVars,
                   lastGood>>

\* the cluster is not deleted: build the instance, recovering from storage
HandlerRecover(cluster, fromTimer) ==
    /\ Received(cluster, fromTimer)
    /\ ~cluster.Deleted
    /\ hcluster' = cluster
    /\ hinstance' = Recover(cluster, instanceStorage, heap)
    /\ hcalls' = <<>>
    /\ hpc' = "client"
    /\ lastNotification' = Notified(cluster.TechnicalID, cluster, "pending")
    /\ UNCHANGED <<env, instanceStorage, heap, vmCapsStorage, queue, cancelled, workerVars,
                   lastGood, lastCycle>>

\* a newClient failure that leaves the store alone
HandlerClientErrorKeeps ==
    /\ hpc = "client"
    /\ hpc' = "receive"
    /\ hcluster' = NoCluster
    /\ hinstance' = Blank
    /\ lastNotification' = Notified(hcluster.TechnicalID, hcluster, "clientError")
    /\ lastCycle' = Touched(hcluster.TechnicalID)
    /\ UNCHANGED <<env, received, instanceStorage, heap, vmCapsStorage, queue, timers, cancelled,
                   hcalls, workerVars, lastGood>>

\* newClient fails: the cluster is removed from storage and ignored
HandlerClientError ==
    /\ hpc = "client"
    /\ instanceStorage' = StorageDelete(instanceStorage, hcluster.TechnicalID)
    /\ heap' = Collect(heap, instanceStorage', instance)
    /\ hpc' = "receive"
    /\ hcluster' = NoCluster
    /\ hinstance' = Blank
    /\ lastNotification' = Notified(hcluster.TechnicalID, hcluster, "clientError")
    /\ lastCycle' = Touched(hcluster.TechnicalID)
    /\ UNCHANGED <<env, received, vmCapsStorage, queue, timers, cancelled, hcalls, workerVars, lastGood>>

\* the lookup fails for a cluster that is not a trial: time.AfterFunc sends the
\* same notification again after the poll interval, continue
HandlerLookupRetry ==
    /\ hpc = "client"
    /\ LET r == ResolveResourceGroup(hinstance, FALSE)
       IN  /\ r.retry
           /\ hcalls' = Track("hcalls", r.calls, hcalls)
    /\ timers' = timers \cup {hcluster}
    /\ hpc' = "receive"
    /\ hcluster' = NoCluster
    /\ hinstance' = Blank
    /\ lastNotification' = Notified(hcluster.TechnicalID, hcluster, "lookupRetry")
    /\ UNCHANGED <<env, received, instanceStorage, heap, vmCapsStorage, queue, cancelled, workerVars,
                   lastGood, lastCycle>>

\* a.instanceStorage.Put(cluster.TechnicalID, instance), after the client was
\* built and the resource group resolved (or given up for a trial)
HandlerPut(found) ==
    /\ hpc = "client"
    /\ LET r == ResolveResourceGroup(hinstance, found)
           id == hcluster.TechnicalID
           slot == FreeSlot(StorageDelete(instanceStorage, id), instance)
       IN  /\ ~r.retry
           /\ r.calls = <<>> => found
           /\ hcalls' = Track("hcalls", r.calls, hcalls)
           /\ instanceStorage' = StoragePut(instanceStorage, id, slot)
           /\ heap' = Collect([heap EXCEPT ![slot] = r.instance], instanceStorage', instance)
    /\ hpc' = "add"
    /\ hinstance' = Blank
    /\ lastNotification' = Notified(hcluster.TechnicalID, hcluster, "persisted")
    /\ lastCycle' = Touched(hcluster.TechnicalID)
    /\ UNCHANGED <<env, received, vmCapsStorage, queue, timers, cancelled, hcluster, workerVars, lastGood>>

\* initialize the vm capabilities cache for the cluster region if not already,
\* then a.queue.Add(cluster.TechnicalID)
HandlerAdd(r) ==
    /\ hpc = "add"
    /\ LET v == InitVMCaps(vmCapsStorage, hcluster.Region, r)
       IN  /\ v.calls = <<>> => r.skus # {}
           /\ vmCapsStorage' = v.storage
           /\ hcalls' = Track("hcalls", hcalls \o v.calls, hcalls)
    /\ queue' = QueueAdd(queue, hcluster.TechnicalID)
    /\ hpc' = "receive"
    /\ hcluster' = NoCluster
    /\ UNCHANGED <<env, received, instanceStorage, heap, timers, cancelled, hinstance,
                   workerVars, lastNotification, lastGood, lastCycle>>

\* a handler that returns on cancellation and leaves the queue open
HandlerReturns ==
    /\ hpc = "receive"
    /\ cancelled' = TRUE
    /\ hpc' = "returned"
    /\ UNCHANGED <<env, received, instanceStorage, heap, vmCapsStorage, queue, timers, hcluster,
                   hinstance, hcalls, workerVars, lastNotification, lastGood, lastCycle>>

\* the process-wide cancellation, and clusterHandler's select taking
\* case <-parentctx.Done(): a.queue.ShutDown(); return
HandlerShutDown ==
    /\ hpc = "receive"
    /\ cancelled' = TRUE
    /\ queue' = QueueShutDown(queue)
    /\ hpc' = "returned"
    /\ UNCHANGED <<env, received, instanceStorage, heap, vmCapsStorage, timers, hcluster,
                   hinstance, hcalls, workerVars, lastNotification, lastGood, lastCycle>>

-----------------------------------------------------------------------------

Next ==
    \/ \E cluster \in Clusters, fromTimer \in BOOLEAN : HandlerDelete(cluster, fromTimer)
    \/ \E cluster \in Clusters, fromTimer \in BOOLEAN : HandlerRecover(cluster, fromTimer)
    \/ HandlerClientError
    \/ HandlerLookupRetry
    \/ \E found \in BOOLEAN : HandlerPut(found)
    \/ \E r \in SkuResults : HandlerAdd(r)
    \/ HandlerShutDown
    \/ \E id \in TechnicalIDs : QueueTimer(id)
    \/ \E w \in Workers : WorkerGet(w)
    \/ \E w \in Workers : WorkerQuit(w)
    \/ \E w \in Workers : WorkerLookup(w)
    \/ \E w \in Workers : WorkerMissing(w)
    \/ \E w \in Workers : WorkerCycle(w)
    \/ \E w \in Workers : WorkerSave(w)

Spec == Init /\ [][Next]_vars

SpecHistory == InitHistory /\ [][Next]_vars

SpecTwo == InitTwo /\ [][Next]_vars

SpecTrial == InitTrial /\ [][Next]_vars

\* the goroutines that can run do run: each worker's steps, the delaying
\* queue's timers and the handler's steps between two receives. Notifications
\* and the cancellation come from outside and are not forced.
Fairness ==
    /\ \A w \in Workers :
          /\ WF_vars(WorkerGet(w))
          /\ WF_vars(WorkerQuit(w))
          /\ WF_vars(WorkerLookup(w))
          /\ WF_vars(WorkerMissing(w))
          /\ WF_vars(WorkerCycle(w))
          /\ WF_vars(WorkerSave(w))
    /\ \A id \in TechnicalIDs : WF_vars(QueueTimer(id))
    /\ WF_vars(HandlerClientError \/ HandlerLookupRetry \/ \E found \in BOOLEAN : HandlerPut(found))
    /\ WF_vars(\E r \in SkuResults : HandlerAdd(r))

SpecLive == InitLive /\ [][Next]_vars /\ Fairness

-----------------------------------------------------------------------------
(* Properties                                                              *)

\* the worker is between queue.Get and queue.Done
InFlight(w) == pc[w] \in {"lookup", "cycle", "save"}

\* the step that ends a cycle: write-back, Done and requeue
EndOfCycle(w) == pc[w] = "save" /\ pc'[w] = "get"

\* C1: no TechnicalID is between queue.Get and queue.Done in two workers at
\* the same time, whatever the interleaving of the handler's Add and the
\* workers' Get, Done and AddAfter.
C1_OneWorkerPerCluster ==
    \A v \in Workers, w \in Workers :
        (v # w /\ InFlight(v) /\ InFlight(w)) => clusterid[v] # clusterid[w]

\* a cluster was added again while a worker held it, and another worker is
\* waiting in Get
C1_Witness ==
    \E v \in Workers, w \in Workers :
        /\ v # w
        /\ pc[v] = "save"
        /\ clusterid[v] \in queue.dirty
        /\ pc[w] = "get"

\* C2 (as claimed): the cycle whose resource-group-not-found error brings
\* retryAttempts to the maximum ends with no entry for the TechnicalID in the
\* Instance cache and without the TechnicalID waiting to be re-added.
C2_RemovedAtMaximum ==
    [][\A w \in Workers :
          (EndOfCycle(w) /\ err[w] = "rgNotFound"
              /\ heap[instance[w]].retryAttempts = maxRetryAttempts)
          => /\ instanceStorage'[clusterid[w]] = 0
             /\ clusterid[w] \notin queue'.waiting]_vars

\* C3: a cycle whose resource-group-not-found error leaves retryAttempts below
\* the maximum ends with the Instance in the cache, its retryAttempts one
\* above the value read at the start of the cycle, and, unless the queue is
\* shutting down, with the TechnicalID waiting for the poll interval.
C3_RetainedBelowMaximum ==
    [][\A w \in Workers :
          (EndOfCycle(w) /\ err[w] = "rgNotFound"
              /\ heap[instance[w]].retryAttempts < maxRetryAttempts)
          => /\ instanceStorage'[clusterid[w]] # 0
             /\ heap'[instanceStorage'[clusterid[w]]].retryAttempts
                    = start[w].retryAttempts + 1
             /\ ~queue.shuttingDown => clusterid[w] \in queue'.waiting]_vars

\* such a cycle has ended: the cache holds the Instance with one attempt and
\* the TechnicalID waits for its timer
C3_Witness ==
    /\ instanceStorage["c1"] # 0
    /\ heap[instanceStorage["c1"]].retryAttempts = 1
    /\ "c1" \in queue.waiting
    /\ \A w \in Workers : pc[w] = "get"

\* C4 (as claimed): the cycle after a rate-limited cycle of the same
\* TechnicalID makes no Provider Client call and leaves retryBackoff cleared.
C4_SkipAfterRateLimit ==
    \A w \in Workers :
        (pc[w] = "save" /\ prev[w].err = "tooMany")
        => calls[w] = <<>> /\ ~heap[instance[w]].retryBackoff

\* C4 (amended): if the handler has neither deleted nor persisted the
\* Instance since the rate-limited cycle K wrote it back, cycle K+1 makes no
\* Provider Client call and clears retryBackoff; and if the same holds between
\* K+1 and K+2, cycle K+2 fetches again.
C4_SkipAfterRateLimitUnlessRefreshed ==
    \A w \in Workers :
        /\ (pc[w] = "save" /\ prev[w].err = "tooMany" /\ ~prev[w].changed)
           => /\ calls[w] = <<>>
              /\ err[w] = selfThrottle
              /\ ~heap[instance[w]].retryBackoff
        /\ (pc[w] = "save" /\ prev[w].err = selfThrottle /\ ~prev[w].changed)
           => /\ calls[w] # <<>>
              /\ err[w] # selfThrottle

\* cycle K+2 has fetched after the skipped cycle K+1
C4_Witness ==
    \E w \in Workers :
        /\ pc[w] = "save"
        /\ prev[w].err = selfThrottle
        /\ ~prev[w].changed
        /\ calls[w] # <<>>

\* C5 (as claimed): a cycle whose fetch fails while the Instance has a
\* lastEvent sends the EventData of the most recent successful fetch of that
\* TechnicalID, and leaves lastEvent as it was.
C5_FallbackIsLastGoodFetch ==
    \A w \in Workers :
        (pc[w] = "save" /\ err[w] # "nil" /\ start[w].lastEvent # NilEvent)
        => /\ sent[w] = <<[Datatenant |-> start[w].cluster.SubAccountID,
                           Data |-> Marshal(lastGood[clusterid[w]])]>>
           /\ heap[instance[w]].lastEvent = start[w].lastEvent

\* C6: a cycle whose fetch fails while the Instance has no lastEvent sends no
\* event, whatever the error.
C6_NothingSentWithoutLastEvent ==
    \A w \in Workers :
        (pc[w] = "save" /\ err[w] # "nil" /\ start[w].lastEvent = NilEvent)
        => sent[w] = <<>>

\* a self-throttled cycle of an Instance that never had an event
C6_Witness ==
    \E w \in Workers :
        /\ pc[w] = "save"
        /\ err[w] = selfThrottle
        /\ start[w].lastEvent = NilEvent

\* nothing of the TechnicalID is underway: the handler is between
\* notifications, no re-delivery is pending and no worker holds it
Quiet(id) ==
    /\ hpc \in {"receive", "returned"}
    /\ \A c \in timers : c.TechnicalID # id
    /\ \A w \in Workers : clusterid[w] # id

\* C7 (as claimed): once the notifications of a TechnicalID are processed and
\* the cycles in flight have ended, the Instance cache has an entry for it if
\* and only if the last notification was not a deletion. (Stated for a last
\* notification that was handled to its end: deleted, or persisted.)
C7_CacheReflectsLastNotification ==
    \A id \in TechnicalIDs :
        (Quiet(id) /\ lastNotification[id].outcome \in {"deleted", "persisted"})
        => (instanceStorage[id] # 0 <=> lastNotification[id].outcome = "persisted")

\* C8 (as claimed): after a Deleted notification that no other follows, the
\* Instance cache ends up without an entry for the TechnicalID, also when a
\* worker was in the middle of a cycle for it. (Stated for the end of the run:
\* the handler has returned and every worker has stopped.)
C8_DeletionIsFinal ==
    \A id \in TechnicalIDs :
        (/\ hpc = "returned"
         /\ \A w \in Workers : pc[w] = "stopped"
         /\ lastNotification[id].outcome = "deleted")
        => instanceStorage[id] = 0

\* the handler's step for a Deleted notification: it receives and is ready to
\* receive again
DeletedStep == hpc = "receive" /\ hpc' = "receive" /\ received' # received

\* C9: handling a Deleted notification removes the entry of its TechnicalID
\* from the Instance cache and nothing else: the work queue, the vm
\* capabilities cache and the other Instances stay as they are, no Provider
\* Client call is made, and nothing changes if the TechnicalID had no entry.
C9_DeleteTouchesOneEntry ==
    [][DeletedStep =>
          \E id \in TechnicalIDs :
              /\ lastNotification'[id].outcome = "deleted"
              /\ instanceStorage' = [instanceStorage EXCEPT ![id] = 0]
              /\ \A other \in TechnicalIDs \ {id} :
                     instanceStorage[other] # 0
                     => heap'[instanceStorage'[other]] = heap[instanceStorage[other]]
              /\ instanceStorage[id] = 0 => heap' = heap
              /\ queue' = queue
              /\ vmCapsStorage' = vmCapsStorage
              /\ hcalls' = <<>>]_vars

\* c1 was deleted while c2 has an Instance and is in the work queue
C9_Witness ==
    /\ lastNotification["c1"].outcome = "deleted"
    /\ instanceStorage["c1"] = 0
    /\ instanceStorage["c2"] # 0
    /\ queue.dirty # {}

\* the worker's step for a TechnicalID with no Instance in the cache
MissingStep(w) == pc[w] = "lookup" /\ pc'[w] = "get"

\* C10: a worker that dequeues a TechnicalID with no Instance in the cache
\* acknowledges it (Done), calls no Provider Client, sends no event, writes
\* nothing to the Instance cache and does not re-admit the TechnicalID (the
\* item is queued again only if it was added while the worker held it).
C10_MissingInstanceIsDropped ==
    [][\A w \in Workers :
          MissingStep(w)
          => /\ clusterid[w] \notin queue'.processing
             /\ calls'[w] = <<>>
             /\ sent'[w] = <<>>
             /\ instanceStorage' = instanceStorage
             /\ heap' = heap
             /\ queue'.waiting = queue.waiting
             /\ queue'.dirty = queue.dirty
             /\ clusterid[w] \notin queue.dirty => queue'.queue = queue.queue]_vars

\* a worker holds a TechnicalID whose Instance is not in the cache
C10_Witness ==
    \E w \in Workers :
        /\ pc[w] = "lookup"
        /\ instanceStorage[clusterid[w]] = 0

\* a worker is in the fetch-or-skip cycle of the TechnicalID
Processed(id) == \E w \in Workers : pc[w] = "cycle" /\ clusterid[w] = id

RunReturned == \A w \in Workers : pc[w] = "stopped"

\* C13: after the cancellation (taken up by clusterHandler's select) the
\* handler has returned, the queue is shut down, and under fair scheduling
\* every worker returns, so Run returns; and a worker only ever returns from
\* a Get that reports the shutdown, on an empty queue.
C13_RunReturnsAfterCancellation ==
    /\ [](cancelled => (hpc = "returned" /\ queue.shuttingDown))
    /\ cancelled ~> RunReturned
    /\ [][\A w \in Workers :
             (pc[w] # "stopped" /\ pc'[w] = "stopped")
             => (pc[w] = "get" /\ queue.shuttingDown /\ QueueGetQuit(queue))]_vars

\* one worker has returned while the other finishes a failed cycle that was
\* underway or queued when the cancellation came
C13_Witness ==
    /\ cancelled
    /\ \E w, v \in Workers :
           /\ pc[w] = "stopped"
           /\ pc[v] = "save"
           /\ err[v] # "nil"

\* the items a Get can still return: queued, or marked for another round
Pending(q) == {q.queue[i] : i \in 1 .. Len(q.queue)} \cup q.dirty

\* C12 (as claimed): once the queue is shut down no worker is handed a
\* TechnicalID any more.
C12_NothingDequeuedAfterShutDown ==
    [][queue.shuttingDown
       => \A w \in Workers : ~(pc[w] = "get" /\ pc'[w] = "lookup")]_vars

\* C12 (amended): once the queue is shut down nothing is admitted any more: a
\* worker that ends its cycle does not requeue, the delayed items stay where
\* they are and never fire, and the items a Get can still return are only
\* those that were queued, or added during their processing, before the
\* shutdown.
C12_NothingAdmittedAfterShutDown ==
    [][queue.shuttingDown
       => /\ queue'.shuttingDown
          /\ queue'.waiting = queue.waiting
          /\ Pending(queue') \subseteq Pending(queue)]_vars

\* a cycle is about to end after the shutdown while a delayed item is pending
C12_Witness ==
    /\ queue.shuttingDown
    /\ queue.waiting # {}
    /\ \E w \in Workers : pc[w] = "save"

\* the event sendMetrics builds for an Instance and an EventData
EventOf(inst, data) == [Datatenant |-> inst.cluster.SubAccountID, Data |-> Marshal(data)]

\* data is what a fetch assembles when every call it has to make succeeds:
\* compute and network, and event hub exactly when a resource group is known
Complete(data, inst, made) ==
    /\ data.Compute \in env.Data
    /\ data.Networking = 1
    /\ IF inst.eventHubResourceGroupName # ""
       THEN /\ made = <<"compute", "network", "eventhub">>
            /\ data.EventHub = 1
            /\ data.ResourceGroups
                   = <<inst.cluster.TechnicalID, inst.eventHubResourceGroupName>>
       ELSE /\ made = <<"compute", "network">>
            /\ data.EventHub = 0
            /\ data.ResourceGroups = <<inst.cluster.TechnicalID>>

\* C14: an event sent in a cycle carries either the EventData of a fetch of
\* this cycle in which every call made succeeded, or the lastEvent the
\* Instance had at the start of the cycle; a cycle whose fetch failed never
\* sends anything else.
C14_NoPartialMetrics ==
    \A w \in Workers :
        (pc[w] = "save" /\ sent[w] # <<>>)
        => \/ /\ err[w] = "nil"
              /\ Complete(eventData[w], start[w], calls[w])
              /\ sent[w] = <<EventOf(start[w], eventData[w])>>
           \/ /\ err[w] # "nil"
              /\ start[w].lastEvent # NilEvent
              /\ sent[w] = <<EventOf(start[w], start[w].lastEvent)>>

\* the network call failed after the compute call succeeded, for an Instance
\* with no lastEvent: there is something assembled, and nothing to fall back on
C14_Witness ==
    \E w \in Workers :
        /\ pc[w] = "save"
        /\ err[w] # "nil"
        /\ calls[w] = <<"compute", "network">>
        /\ start[w].lastEvent = NilEvent
        /\ sent[w] = <<>>

\* C16 (as claimed): a cycle whose fetch succeeds sends exactly one event,
\* tagged with the SubAccountID and carrying the fresh EventData, and
\* lastEvent becomes that EventData.
C16_OneEventPerSuccess ==
    \A w \in Workers :
        (pc[w] = "save" /\ err[w] = "nil")
        => /\ sent[w] = <<EventOf(start[w], eventData[w])>>
           /\ heap[instance[w]].lastEvent = eventData[w]

\* C16 (amended): that holds when json.Marshal accepts the EventData; when it
\* does not, nothing is sent and lastEvent stays as it was. No cycle sends
\* more than one event.
C16_OneEventPerEncodableSuccess ==
    \A w \in Workers :
        /\ (pc[w] = "save" /\ err[w] = "nil" /\ ~MarshalFails(eventData[w]))
           => /\ sent[w] = <<EventOf(start[w], eventData[w])>>
              /\ heap[instance[w]].lastEvent = eventData[w]
        /\ (pc[w] = "save" /\ err[w] = "nil" /\ MarshalFails(eventData[w]))
           => /\ sent[w] = <<>>
              /\ heap[instance[w]].lastEvent = start[w].lastEvent
        /\ Len(sent[w]) <= 1

\* a successful fetch of a trial cluster has been sent, replacing an older
\* lastEvent
C16_Witness ==
    \E w \in Workers :
        /\ pc[w] = "save"
        /\ err[w] = "nil"
        /\ sent[w] # <<>>
        /\ start[w].cluster.Trial
        /\ start[w].lastEvent # NilEvent

\* C15 (as claimed): a cycle that gets resource-group-not-found raises
\* retryAttempts by exactly one, and a cycle reads at its start the
\* retryAttempts that the previous cycle of the TechnicalID wrote back.
C15_CounterCarriedOver ==
    \A w \in Workers :
        /\ (pc[w] = "save" /\ err[w] = "rgNotFound")
           => heap[instance[w]].retryAttempts = start[w].retryAttempts + 1
        /\ (pc[w] \in {"cycle", "save"} /\ prev[w].err # "none")
           => start[w].retryAttempts = prev[w].attempts

\* C15 (amended): the count is raised by exactly one; the cycle reads what
\* the previous cycle wrote back if clusterHandler has neither deleted nor
\* persisted the Instance since, and reads zero if it has.
C15_CounterCarriedOverUnlessRefreshed ==
    \A w \in Workers :
        /\ (pc[w] = "save" /\ err[w] = "rgNotFound")
           => heap[instance[w]].retryAttempts = start[w].retryAttempts + 1
        /\ (pc[w] \in {"cycle", "save"} /\ prev[w].err # "none" /\ ~prev[w].changed)
           => start[w].retryAttempts = prev[w].attempts
        /\ (pc[w] \in {"cycle", "save"} /\ prev[w].err # "none" /\ prev[w].changed)
           => start[w].retryAttempts = 0

\* a second resource-group-not-found in a row, on the count the first one
\* wrote back
C15_Witness ==
    \E w \in Workers :
        /\ pc[w] = "save"
        /\ err[w] = "rgNotFound"
        /\ prev[w].err # "none"
        /\ ~prev[w].changed
        /\ prev[w].attempts = 1
        /\ heap[instance[w]].retryAttempts = 2

\* the handler leaves the notification it was working on with that outcome
Outcome(what) ==
    /\ hpc = "client"
    /\ hpc' # "client"
    /\ lastNotification'[hcluster.TechnicalID] = [cluster |-> hcluster, outcome |-> what]

\* the Instance the store holds for the TechnicalID after the step
Persisted(id) == heap'[instanceStorage'[id]]

\* C17: when the resource group lookup fails for a cluster that is not a
\* trial, the notification is handed to a timer and the handler is back at
\* its receive: nothing is persisted and the queue is as it was. An Instance
\* is persisted without a resource group name only for a trial cluster, after
\* a lookup, and what is persisted is then admitted to the queue.
C17_LookupFailure ==
    /\ [][Outcome("lookupRetry")
          => /\ ~hcluster.Trial
             /\ hinstance.eventHubResourceGroupName = ""
             /\ hcalls' = <<"GetResourceGroup">>
             /\ timers' = timers \cup {hcluster}
             /\ hpc' = "receive"
             /\ instanceStorage' = instanceStorage
             /\ heap' = heap
             /\ queue' = queue]_vars
    /\ [][Outcome("persisted")
          => /\ hpc' = "add"
             /\ hcluster' = hcluster
             /\ timers' = timers
             /\ instanceStorage'[hcluster.TechnicalID] # 0
             /\ Persisted(hcluster.TechnicalID).eventHubResourceGroupName = ""
                => /\ hcluster.Trial
                   /\ hcalls' = <<"GetResourceGroup">>]_vars
    /\ [][(hpc = "add" /\ hpc' # "add") => hcluster.TechnicalID \in queue'.dirty]_vars

\* the notification of c1 waits for its timer, and the trial cluster c2 is
\* persisted without a resource group name and admitted
C17_Witness ==
    /\ \E c \in timers : c.TechnicalID = "c1"
    /\ instanceStorage["c1"] = 0
    /\ instanceStorage["c2"] # 0
    /\ heap[instanceStorage["c2"]].eventHubResourceGroupName = ""
    /\ "c2" \in queue.dirty

\* C18: when newClient fails the handler removes the entry of the
\* TechnicalID from the Instance cache and does nothing else: no Provider
\* Client call, the vm capabilities cache, the queue and the other Instances
\* as they were, no timer.
C18_ClientErrorDropsCluster ==
    [][Outcome("clientError")
       => /\ instanceStorage' = [instanceStorage EXCEPT ![hcluster.TechnicalID] = 0]
          /\ \A other \in TechnicalIDs \ {hcluster.TechnicalID} :
                 instanceStorage[other] # 0
                 => heap'[instanceStorage'[other]] = heap[instanceStorage[other]]
          /\ hcalls' = <<>>
          /\ vmCapsStorage' = vmCapsStorage
          /\ queue' = queue
          /\ timers' = timers
          /\ hpc' = "receive"]_vars

\* the client could not be built for c1, which had been persisted and
\* admitted before
C18_Witness ==
    /\ lastNotification["c1"].outcome = "clientError"
    /\ instanceStorage["c1"] = 0
    /\ "c1" \in Pending(queue)

\* C19 (as claimed): when the handler persists an Instance over an existing
\* entry, the new Instance has the lastEvent of that entry, its resource group
\* name if it had one, and the cluster of the notification.
C19_RefreshKeepsLastEvent ==
    [][(Outcome("persisted") /\ instanceStorage[hcluster.TechnicalID] # 0)
       => /\ Persisted(hcluster.TechnicalID).lastEvent
                = heap[instanceStorage[hcluster.TechnicalID]].lastEvent
          /\ heap[instanceStorage[hcluster.TechnicalID]].eventHubResourceGroupName # ""
             => Persisted(hcluster.TechnicalID).eventHubResourceGroupName
                   = heap[instanceStorage[hcluster.TechnicalID]].eventHubResourceGroupName
          /\ Persisted(hcluster.TechnicalID).cluster = hcluster]_vars

\* C20: no region is ever cached with an empty capability set; an entry once
\* written is never changed or removed; and the handler calls
\* GetVMResourceSkus exactly when the region of the cluster has no entry,
\* writing at most that region's entry.
C20_VMCapsWrittenOnce ==
    /\ [](\A r \in Regions : vmCapsStorage[r] # <<{}>>)
    /\ [][\A r \in Regions :
             vmCapsStorage[r] # <<>> => vmCapsStorage'[r] = vmCapsStorage[r]]_vars
    /\ [][(hpc = "add" /\ hpc' # "add")
          => /\ (hcalls' # hcalls) <=> (vmCapsStorage[hcluster.Region] = <<>>)
             /\ hcalls' # hcalls => hcalls' = Append(hcalls, "GetVMResourceSkus")
             /\ \A r \in Regions \ {hcluster.Region} :
                    vmCapsStorage'[r] = vmCapsStorage[r]]_vars
    /\ [][(hpc = "add" /\ hpc' = "add") \/ hpc # "add"
          => vmCapsStorage' = vmCapsStorage]_vars

\* the capabilities of c1's region are cached, and those of c2's region are
\* not although c2 has been admitted: the call for them gave nothing
C20_Witness ==
    /\ vmCapsStorage["eu1"] # <<>>
    /\ vmCapsStorage["eu2"] = <<>>
    /\ instanceStorage["c2"] # 0
    /\ "c2" \in queue.dirty
    /\ hpc = "receive"

\* the worker's step from the fetch to the send
CycleStep(w) == pc[w] = "cycle" /\ pc'[w] = "save"

\* C21: in a cycle whose fetch returns an error, a 404 that does not name the
\* resource group, or any other error than a 429, leaves retryAttempts and
\* retryBackoff as they were and the Instance cache alone; a 429 sets
\* retryBackoff and leaves retryAttempts; a resource-group-not-found leaves
\* retryBackoff. The skip of a self-throttled cycle leaves retryAttempts and
\* the cache alone.
C21_ClassificationFrame ==
    [][\A w \in Workers :
          CycleStep(w)
          => LET before == heap[instance[w]]
                 after == heap'[instance[w]]
             IN  /\ err'[w] \in {"notFound", "other"}
                    => /\ after.retryAttempts = before.retryAttempts
                       /\ after.retryBackoff = before.retryBackoff
                       /\ instanceStorage' = instanceStorage
                 /\ err'[w] = "tooMany"
                    => /\ after.retryBackoff
                       /\ after.retryAttempts = before.retryAttempts
                       /\ instanceStorage' = instanceStorage
                 /\ err'[w] = "rgNotFound"
                    => after.retryBackoff = before.retryBackoff
                 /\ err'[w] = selfThrottle
                    => /\ after.retryAttempts = before.retryAttempts
                       /\ instanceStorage' = instanceStorage]_vars

\* a 404 that does not name the resource group, on an Instance that has
\* already counted a missing resource group
C21_Witness ==
    \E w \in Workers :
        /\ pc[w] = "save"
        /\ err[w] = "notFound"
        /\ start[w].retryAttempts = 1
        /\ heap[instance[w]].retryAttempts = 1

\* the TechnicalID has an entry before and after the step
Kept(id) == instanceStorage[id] # 0 /\ instanceStorage'[id] # 0

\* retryAttempts of the entry of the TechnicalID, before and after the step
Attempts(id) == heap[instanceStorage[id]].retryAttempts

AttemptsAfter(id) == heap'[instanceStorage'[id]].retryAttempts

\* a worker's fetch for the TechnicalID succeeds in this step
Succeeds(id) ==
    \E w \in Workers : CycleStep(w) /\ clusterid[w] = id /\ err'[w] = "nil"

\* clusterHandler persists an Instance in this step
PersistStep == hpc = "client" /\ hpc' = "add"

\* C22 (as claimed): the retryAttempts of a TechnicalID's entry never
\* decreases from one state to the next, unless a fetch for it succeeds in
\* that step or the entry is deleted.
C22_AttemptsNeverDecrease ==
    [][\A id \in TechnicalIDs :
          (Kept(id) /\ ~Succeeds(id)) => AttemptsAfter(id) >= Attempts(id)]_vars

\* C22 (amended): the retryAttempts of a TechnicalID's entry never decreases
\* from one state to the next while the entry is kept, except in the step in
\* which clusterHandler persists a new Instance for it, which has zero; a
\* successful fetch leaves it as it is.
C22_AttemptsDecreaseOnlyOnRefresh ==
    [][\A id \in TechnicalIDs :
          /\ (Kept(id) /\ ~(PersistStep /\ hcluster.TechnicalID = id))
             => AttemptsAfter(id) >= Attempts(id)
          /\ (Kept(id) /\ PersistStep /\ hcluster.TechnicalID = id)
             => AttemptsAfter(id) = 0
          /\ (Kept(id) /\ Succeeds(id)) => AttemptsAfter(id) = Attempts(id)]_vars

\* a fetch has succeeded for an Instance that has counted a missing resource
\* group, and the count is still there
C22_Witness ==
    \E w \in Workers :
        /\ pc[w] = "save"
        /\ err[w] = "nil"
        /\ instanceStorage[clusterid[w]] = instance[w]
        /\ heap[instance[w]].retryAttempts = 1

\* C23: the Instance clusterHandler persists for a notification that is not a
\* deletion has retryAttempts = 0 and retryBackoff = FALSE, whatever the
\* entry it replaces held.
C23_PersistedStartsAfresh ==
    [][Outcome("persisted")
       => /\ Persisted(hcluster.TechnicalID).retryAttempts = 0
          /\ ~Persisted(hcluster.TechnicalID).retryBackoff]_vars

\* the last cycle wrote back a count of one, and the Instance persisted since
\* has none
C23_Witness ==
    /\ lastNotification["c1"].outcome = "persisted"
    /\ lastCycle["c1"].changed
    /\ lastCycle["c1"].attempts = 1
    /\ instanceStorage["c1"] # 0
    /\ heap[instanceStorage["c1"]].retryAttempts = 0

\* C24 (as claimed): when clusterHandler has persisted a refreshed Instance
\* for a TechnicalID while a worker was in a cycle for it, so that the entry
\* is no longer the Instance the worker holds, the cache still holds the
\* cluster of that refreshed Instance after the worker's write-back.
C24_RefreshSurvivesWriteBack ==
    [][\A w \in Workers :
          (EndOfCycle(w) /\ instanceStorage[clusterid[w]] \notin {0, instance[w]})
          => heap'[instanceStorage'[clusterid[w]]].cluster
                 = heap[instanceStorage[clusterid[w]]].cluster]_vars

====
